---- MODULE Spec2Model ----
(***************************************************************************)
(* AEO On-Page Auditor (src/AEO_Claude.py): the signal extractors, the     *)
(* score breakdown, the per-engine scores, the prioritized recommendations *)
(* and the Analyze button handler of the Streamlit dashboard.              *)
(*                                                                         *)
(* Numbers with one decimal (component scores, engine scores, readability, *)
(* average paragraph length) are kept as integers in tenths: 2.5 is 25.    *)
(* Engine weights (1.2, 0.9, ...) are kept in tenths as well.              *)
(***************************************************************************)
EXTENDS Integers, Sequences, FiniteSets, TLC

VARIABLES
    pc,                 \* position of the script / of the function being run
    url,                \* content of the text input
    page,               \* the fetched page as the extractors see it
    scan,               \* locals of analyze_schema's loop
    data,               \* the signal bundle ("result" in the handler)
    score_breakdown,    \* calculate_score_breakdown(result)
    engine_scores,      \* calculate_engine_scores(result)
    recommendations,    \* generate_prioritized_recommendations(result)
    shown,              \* what the dashboard has displayed for this request
    calls,              \* the functions called for this request, in order
    run,                \* which run of the pipeline on this bundle (1 or 2)
    first               \* the outputs of run 1, kept for comparison

vars == <<pc, url, page, scan, data, score_breakdown, engine_scores,
          recommendations, shown, calls, run, first>>

----------------------------------------------------------------------------
(* Bounds of the model *)

MaxQuestionHeadings == 6   \* question_headings ranges over 0..MaxQuestionHeadings
SnippetSamples == 6        \* snippet_score takes SnippetSamples+1 values spread over 0..100
EntityMargin == 1          \* entities_found is sampled up to this far from its thresholds
WordMargin == 1            \* first_para_words is sampled up to this far outside 40..60
MaxBlocks == 2             \* ld+json script blocks on a page
MaxItems == 2              \* entries of a mainEntity / step list
MaxListLen == 2            \* objects in a JSON list block
MaxHeadings == 6           \* headings on a page whose headings are enumerated

----------------------------------------------------------------------------
(* Helpers *)

Min(a, b) == IF a <= b THEN a ELSE b

Abs(a) == IF a < 0 THEN -a ELSE a

\* Python's round(): the integer nearest to num/den, a tie going to the even
\* neighbour. den > 0, num >= 0.
PyRound(num, den) ==
    LET q == num \div den
        r == num % den
    IN  IF 2 * r > den THEN q + 1
        ELSE IF 2 * r < den THEN q
        ELSE IF q % 2 = 0 THEN q ELSE q + 1

RECURSIVE SumSeq(_)
SumSeq(s) == IF s = <<>> THEN 0 ELSE Head(s) + SumSeq(Tail(s))

\* bool -> 0/1, as Python's sum() over booleans does
B2I(b) == IF b THEN 1 ELSE 0

Components == <<"schema", "questions", "snippet", "structure", "eeat", "entities">>

----------------------------------------------------------------------------
(* calculate_score_breakdown: scores and maxima in tenths *)

schema_score(d) ==
    (IF d.schema.faq_present THEN 100 ELSE 0)
  + (IF d.schema.howto_present THEN 100 ELSE 0)
  + (IF d.schema.article_present THEN 50 ELSE 0)

question_score_uncapped(d) == d.questions.question_headings * 4 * 10

question_score(d) == Min(d.questions.question_headings * 4, 20) * 10

\* round(snippet_score * 0.2, 1): the tenths of snippet_score / 5, rounded
snippet_component(d) == PyRound(d.snippet.snippet_score * 10, 5)

structure_score(d) ==
    (IF d.structure.has_tldr THEN 50 ELSE 0)
  + (IF d.structure.has_toc THEN 50 ELSE 0)
  + (IF d.structure.flesch_reading_ease >= 600 THEN 50 ELSE 0)

eeat_score(d) ==
    ( B2I(d.eeat.has_author_meta) + B2I(d.eeat.has_date)
    + B2I(d.eeat.has_author_bio) + B2I(d.eeat.has_sources) ) * 25

entity_score(d) ==
    IF d.entities.entities_found > 10 THEN 100
    ELSE IF d.entities.entities_found > 5 THEN 50
    ELSE 0

breakdown(d) ==
    [schema    |-> [score |-> schema_score(d),      max |-> 250],
     questions |-> [score |-> question_score(d),    max |-> 200],
     snippet   |-> [score |-> snippet_component(d), max |-> 200],
     structure |-> [score |-> structure_score(d),   max |-> 150],
     eeat      |-> [score |-> eeat_score(d),        max |-> 100],
     entities  |-> [score |-> entity_score(d),      max |-> 100]]

\* sum(item['score'] for item in breakdown.values()), in tenths
total_score(bd) == SumSeq([i \in 1..Len(Components) |-> bd[Components[i]].score])

total_of_truncated(bd) == Min(total_score(bd) \div 10, 100)

\* min(round(total_score), 100)
total_of(bd) == Min(PyRound(total_score(bd), 10), 100)

calculate_score_breakdown(d) ==
    [breakdown |-> breakdown(d), total |-> total_of(breakdown(d))]

----------------------------------------------------------------------------
(* calculate_engine_scores *)

\* the 'weights' tables of the four engines, in tenths
engines ==
    [ChatGPT    |-> [schema |-> 12, questions |-> 11, snippet |-> 10,
                     structure |-> 13, eeat |-> 9, entities |-> 10],
     Claude     |-> [schema |-> 10, questions |-> 12, snippet |-> 10,
                     structure |-> 14, eeat |-> 13, entities |-> 11],
     Gemini     |-> [schema |-> 13, questions |-> 10, snippet |-> 12,
                     structure |-> 10, eeat |-> 10, entities |-> 12],
     Perplexity |-> [schema |-> 11, questions |-> 13, snippet |-> 12,
                     structure |-> 10, eeat |-> 12, entities |-> 10]]

EngineNames == DOMAIN engines

\* weighted_score += (score / max) * max * weight, in hundredths
weighted_score(bd, w) ==
    SumSeq([i \in 1..Len(Components) |-> bd[Components[i]].score * w[Components[i]]])

total_weight_unweighted(bd, w) ==
    SumSeq([i \in 1..Len(Components) |-> bd[Components[i]].max * 10])

\* total_weight += max * weight, in hundredths
total_weight(bd, w) ==
    SumSeq([i \in 1..Len(Components) |-> bd[Components[i]].max * w[Components[i]]])

\* min(round(weighted_score / total_weight * 100, 1), 100), in tenths
engine_score(bd, w) ==
    Min(PyRound(1000 * weighted_score(bd, w), total_weight(bd, w)), 1000)

calculate_engine_scores(d) ==
    LET base_breakdown == calculate_score_breakdown(d)
    IN  [e \in EngineNames |-> engine_score(base_breakdown.breakdown, engines[e])]

----------------------------------------------------------------------------
(* generate_prioritized_recommendations *)

\* str(q).lower() contains 'how', for the heading texts of the model
ContainsHow(q) ==
    q \in {"How do I start?", " How do I start? ", "Show details?", "Howto guide",
           "Knowhow basics"}

AnyHow(examples) == \E i \in 1..Len(examples) : ContainsHow(examples[i])

Rec(p, c, a, i, e) ==
    [priority |-> p, category |-> c, action |-> a, impact |-> i, effort |-> e]

recFaq == Rec("HIGH", "Schema Markup",
    "Add FAQ schema markup to target 'People Also Ask' boxes",
    "Critical for all answer engines - enables direct answer extraction", "Medium")

recQuestions == Rec("HIGH", "Content Structure",
    "Add more question-based headings (What, Why, How)",
    "Improves discoverability in conversational AI searches", "Low")

recFirstPara == Rec("HIGH", "Snippet Optimization",
    "Optimize first paragraph to 40-60 words for featured snippets",
    "Increases chances of being selected as the primary answer", "Low")

recAuthor == Rec("MEDIUM", "E-E-A-T",
    "Add author information and credentials",
    "Builds trust signals, especially important for Claude and Perplexity", "Low")

recHowTo == Rec("MEDIUM", "Schema Markup",
    "Add HowTo schema for step-by-step content",
    "Enhances visibility for process-oriented queries", "Medium")

recLists == Rec("MEDIUM", "Content Format",
    "Add bulleted or numbered lists for better snippet visibility",
    "Makes content easier to extract and cite", "Low")

recTldr == Rec("MEDIUM", "Content Structure",
    "Add a TL;DR or summary section at the beginning",
    "Provides quick answer extraction point", "Medium")

recParagraphs == Rec("LOW", "Readability",
    "Break down paragraphs into shorter chunks (2-3 sentences)",
    "Improves readability scores and scannability", "Medium")

recEntities == Rec("LOW", "Semantic SEO",
    "Include more relevant entities and topics for semantic richness",
    "Helps with entity recognition, especially for Gemini", "High")

rules_first_para_strict(d) == <<
    [when |-> ~d.schema.faq_present,                         rec |-> recFaq],
    [when |-> d.questions.question_headings < 3,             rec |-> recQuestions],
    [when |-> d.snippet.first_para_words <= 40
              \/ d.snippet.first_para_words >= 60,           rec |-> recFirstPara],
    [when |-> ~d.eeat.has_author_meta,                       rec |-> recAuthor],
    [when |-> ~d.schema.howto_present
              /\ AnyHow(d.questions.question_heading_examples), rec |-> recHowTo],
    [when |-> d.snippet.lists = 0,                           rec |-> recLists],
    [when |-> ~d.structure.has_tldr,                         rec |-> recTldr],
    [when |-> d.structure.avg_para_length > 1000,            rec |-> recParagraphs],
    [when |-> d.entities.entities_found < 10,                rec |-> recEntities] >>

\* the rules in the order the code writes them: the predicate of each and
\* the record it appends
rules(d) == <<
    [when |-> ~d.schema.faq_present,                         rec |-> recFaq],
    [when |-> d.questions.question_headings < 3,             rec |-> recQuestions],
    [when |-> d.snippet.first_para_words < 40
              \/ d.snippet.first_para_words > 60,            rec |-> recFirstPara],
    [when |-> ~d.eeat.has_author_meta,                       rec |-> recAuthor],
    [when |-> ~d.schema.howto_present
              /\ AnyHow(d.questions.question_heading_examples), rec |-> recHowTo],
    [when |-> d.snippet.lists = 0,                           rec |-> recLists],
    [when |-> ~d.structure.has_tldr,                         rec |-> recTldr],
    [when |-> d.structure.avg_para_length > 1000,            rec |-> recParagraphs],
    [when |-> d.entities.entities_found < 10,                rec |-> recEntities] >>

\* recommendations = []: a fresh list on every call, whatever an earlier
\* call returned
fresh_recommendations_kept(previous) == previous

fresh_recommendations(previous) == <<>>

RECURSIVE append_rules(_, _)
append_rules(rs, acc) ==
    IF rs = <<>> THEN acc
    ELSE append_rules(Tail(rs), IF Head(rs).when THEN Append(acc, Head(rs).rec) ELSE acc)

priority_order_swapped == [HIGH |-> 0, MEDIUM |-> 2, LOW |-> 1]

priority_order == [HIGH |-> 0, MEDIUM |-> 1, LOW |-> 2]

\* list.sort(key=...): stable, so an element goes after every element whose
\* key is not larger
RECURSIVE insert_sorted(_, _)
insert_sorted(x, s) ==
    IF s = <<>> THEN <<x>>
    ELSE IF priority_order[x.priority] < priority_order[Head(s).priority]
         THEN <<x>> \o s
         ELSE <<Head(s)>> \o insert_sorted(x, Tail(s))

RECURSIVE sort_by_priority(_)
sort_by_priority(s) ==
    IF s = <<>> THEN <<>>
    ELSE insert_sorted(s[Len(s)], sort_by_priority(SubSeq(s, 1, Len(s) - 1)))

generate_prioritized_recommendations(d, previous) ==
    sort_by_priority(append_rules(rules(d), fresh_recommendations(previous)))

----------------------------------------------------------------------------
(* Signal bundles *)

SnippetScores == {(100 * k) \div SnippetSamples : k \in 0..SnippetSamples}

\* readability just below and at the threshold of 60, in tenths
FleschValues == {599, 600}

\* average paragraph length at and just above 100 words, in tenths
AvgParaValues == {1000, 1001}

HeadingTexts == {"How do I start?", "What is AEO?"}

SchemaSignals(F, H, A) ==
    {[faq_present |-> f, faq_count |-> 0, howto_present |-> h, howto_count |-> 0,
      article_present |-> a] : f \in F, h \in H, a \in A}

\* question_heading_examples holds the first 5 question headings
QuestionSignals(N, T) ==
    UNION {{[total_headings |-> n, question_headings |-> n,
             question_heading_examples |-> ex] : ex \in [1..Min(n, 5) -> T]} : n \in N}

SnippetSignals(W, L, S) ==
    {[first_para_words |-> w, lists |-> l, tables |-> 0, short_paragraphs |-> 0,
      snippet_score |-> s] : w \in W, l \in L, s \in S}

StructureSignals(T, C, P, R) ==
    {[has_tldr |-> t, has_toc |-> c, avg_para_length |-> p, word_count |-> 0,
      flesch_reading_ease |-> r] : t \in T, c \in C, p \in P, r \in R}

EntitySignals(N) == {[entities_found |-> n, entity_examples |-> <<>>] : n \in N}

EeatSignals(A, D, Bi, S) ==
    {[has_author_meta |-> a, has_date |-> d, has_author_bio |-> b,
      has_about_link |-> FALSE, has_contact_link |-> FALSE, has_sources |-> s] :
      a \in A, d \in D, b \in Bi, s \in S}

Bundles(Sc, Qu, Sn, St, En, Ee) ==
    {[schema |-> sc, questions |-> qu, snippet |-> sn, structure |-> st,
      entities |-> en, eeat |-> ee] :
      sc \in Sc, qu \in Qu, sn \in Sn, st \in St, en \in En, ee \in Ee}

\* bundles that vary every signal the score breakdown reads
ScoreBundles ==
    Bundles(SchemaSignals(BOOLEAN, BOOLEAN, BOOLEAN),
            QuestionSignals(0..MaxQuestionHeadings, {"What is AEO?"}),
            SnippetSignals({0}, {0}, SnippetScores),
            StructureSignals(BOOLEAN, BOOLEAN, {1000}, FleschValues),
            EntitySignals({5, 6} \cup {10 + m : m \in 0..EntityMargin}),
            EeatSignals(BOOLEAN, BOOLEAN, BOOLEAN, BOOLEAN))

\* bundles that vary every signal the recommendation rules read
RecBundles ==
    Bundles(SchemaSignals(BOOLEAN, BOOLEAN, {FALSE}),
            QuestionSignals({0, 2, 3}, HeadingTexts),
            SnippetSignals({0} \cup UNION {{40 - m, 60 + m} : m \in 0..WordMargin},
                           {0, 1}, {0}),
            StructureSignals(BOOLEAN, BOOLEAN, AvgParaValues, {600}),
            EntitySignals({10 - m : m \in 0..EntityMargin}),
            EeatSignals(BOOLEAN, {FALSE}, {FALSE}, BOOLEAN))

----------------------------------------------------------------------------
(* State before anything was computed *)

NoPage == [blocks |-> <<>>, headings |-> <<>>, paragraphs |-> <<>>, lists |-> 0,
           tables |-> 0, tldr |-> FALSE, toc |-> FALSE, word_count |-> 0,
           flesch |-> 0, flesch_raises |-> FALSE, entities |-> 0,
           author_meta |-> FALSE, date_meta |-> FALSE, author_bio |-> FALSE,
           about_link |-> FALSE, contact_link |-> FALSE, sources |-> FALSE]

NoScan == [i |-> 0, faq_present |-> FALSE, faq_count |-> 0,
           howto_present |-> FALSE, howto_count |-> 0, article_present |-> FALSE]

NoData == CHOOSE d \in Bundles(SchemaSignals({FALSE}, {FALSE}, {FALSE}),
                               QuestionSignals({0}, {}),
                               SnippetSignals({0}, {0}, {0}),
                               StructureSignals({FALSE}, {FALSE}, {0}, {0}),
                               EntitySignals({0}),
                               EeatSignals({FALSE}, {FALSE}, {FALSE}, {FALSE})) : TRUE

NoBreakdown == [breakdown |-> [c \in {Components[i] : i \in 1..Len(Components)} |->
                                  [score |-> 0, max |-> 0]],
                total |-> -1]

NoEngineScores == [e \in EngineNames |-> -1]

Outputs == [score_breakdown |-> score_breakdown, engine_scores |-> engine_scores,
            recommendations |-> recommendations]

NoOutputs == [score_breakdown |-> NoBreakdown, engine_scores |-> NoEngineScores,
              recommendations |-> <<>>]

\* the pipeline is about to run on a bundle drawn from Bs
InitPipeline(Bs) ==
    /\ pc = "score"
    /\ url = "valid"
    /\ page = NoPage
    /\ scan = NoScan
    /\ data \in Bs
    /\ score_breakdown = NoBreakdown
    /\ engine_scores = NoEngineScores
    /\ recommendations = <<>>
    /\ shown = <<>>
    /\ calls = <<>>
    /\ run = 1
    /\ first = NoOutputs

----------------------------------------------------------------------------
(* The scoring pipeline: the three calls of the handler *)

ScoreBreakdown ==
    /\ pc = "score"
    /\ score_breakdown' = calculate_score_breakdown(data)
    /\ calls' = Append(calls, "calculate_score_breakdown")
    /\ pc' = "engines"
    /\ UNCHANGED <<url, page, scan, data, engine_scores, recommendations, shown, run, first>>

EngineScores ==
    /\ pc = "engines"
    /\ engine_scores' = calculate_engine_scores(data)
    /\ calls' = Append(calls, "calculate_engine_scores")
    /\ pc' = "recommend"
    /\ UNCHANGED <<url, page, scan, data, score_breakdown, recommendations, shown, run, first>>

Recommend ==
    /\ pc = "recommend"
    /\ recommendations' = generate_prioritized_recommendations(data, recommendations)
    /\ calls' = Append(calls, "generate_prioritized_recommendations")
    /\ pc' = "display"
    /\ UNCHANGED <<url, page, scan, data, score_breakdown, engine_scores, shown, run, first>>

\* the three calls once more on the same bundle
Rerun ==
    /\ pc = "display"
    /\ run = 1
    /\ first' = Outputs
    /\ run' = 2
    /\ pc' = "score"
    /\ UNCHANGED <<url, page, scan, data, score_breakdown, engine_scores,
                   recommendations, shown, calls>>

NextPipeline == ScoreBreakdown \/ EngineScores \/ Recommend

InitScore == InitPipeline(ScoreBundles)

NextScore == ScoreBreakdown \/ EngineScores

SpecScore == InitScore /\ [][NextScore]_vars

InitRecs == InitPipeline(RecBundles)

SpecRecs == InitRecs /\ [][NextPipeline]_vars

\* bundles for running the pipeline twice
TwiceBundles ==
    Bundles(SchemaSignals(BOOLEAN, BOOLEAN, {FALSE}),
            QuestionSignals({0, 2, MaxQuestionHeadings}, HeadingTexts),
            SnippetSignals({0, 40}, {0}, {100}),
            StructureSignals(BOOLEAN, {FALSE}, AvgParaValues, {600}),
            EntitySignals({10 - m : m \in 0..EntityMargin}),
            EeatSignals(BOOLEAN, {FALSE}, {FALSE}, {FALSE}))

InitTwice == InitPipeline(TwiceBundles)

NextTwice == NextPipeline \/ Rerun

SpecTwice == InitTwice /\ [][NextTwice]_vars

----------------------------------------------------------------------------
(* Pages *)

\* An ld+json script block: its text does not parse ("malformed"), parses to
\* one value ("object", one item) or to a JSON list ("list"). An item is a
\* JSON object with its @type and the size n of its mainEntity / step list
\* (n = -1: the field holds a value without a length, such as null), or a
\* value that is not an object (type "NotAnObject").
SchemaTypes == {"FAQPage", "HowTo", "Article", "WebPage"}

Item(t, n) == [type |-> t, n |-> n]

ObjectItems ==
    {Item(t, n) : t \in {"FAQPage", "HowTo"}, n \in -1..MaxItems}
    \cup {Item("Article", 0), Item("WebPage", 0), Item("NotAnObject", 0)}

ListItems == {Item("FAQPage", 1), Item("NotAnObject", 0)}

SeqsUpTo(S, n) == UNION {[1..k -> S] : k \in 0..n}

Blocks ==
    {[kind |-> "malformed", items |-> <<>>]}
    \cup {[kind |-> "object", items |-> <<it>>] : it \in ObjectItems}
    \cup {[kind |-> "list", items |-> its] : its \in SeqsUpTo(ListItems, MaxListLen)}

----------------------------------------------------------------------------
(* analyze_schema *)

\* 'faqpage' in schema_type, 'howto' in schema_type, 'article' in schema_type,
\* for the lower-cased @type values of the model
HasFaqpage(t) == t = "FAQPage"

HasHowto(t) == t = "HowTo"

HasArticle(t) == t = "Article"

\* One item of a block, from the locals acc: the locals after it, and whether
\* an exception was raised (item.get on a value that is not an object, len()
\* of a value without a length).
process_item(acc, it) ==
    IF it.type = "NotAnObject" THEN [locals |-> acc, raised |-> TRUE]
    ELSE IF HasFaqpage(it.type) THEN
        IF it.n < 0
        THEN [locals |-> [acc EXCEPT !.faq_present = TRUE], raised |-> TRUE]
        ELSE [locals |-> [acc EXCEPT !.faq_present = TRUE, !.faq_count = it.n],
              raised |-> FALSE]
    ELSE IF HasHowto(it.type) THEN
        IF it.n < 0
        THEN [locals |-> [acc EXCEPT !.howto_present = TRUE], raised |-> TRUE]
        ELSE [locals |-> [acc EXCEPT !.howto_present = TRUE, !.howto_count = it.n],
              raised |-> FALSE]
    ELSE IF HasArticle(it.type) THEN
        [locals |-> [acc EXCEPT !.article_present = TRUE], raised |-> FALSE]
    ELSE [locals |-> acc, raised |-> FALSE]

\* the items of one block in order, up to the first exception
RECURSIVE process_items(_, _)
process_items(acc, its) ==
    IF its = <<>> THEN acc
    ELSE LET r == process_item(acc, Head(its))
         IN  IF r.raised THEN r.locals ELSE process_items(r.locals, Tail(its))

\* the body of the try for one script block
process_block(acc, b) ==
    IF b.kind = "malformed" THEN acc ELSE process_items(acc, b.items)

after_exception_break(i, n) == n + 1

\* except: continue, and the end of an iteration without exception: the loop
\* goes on with the next of the n script blocks
after_exception(i, n) == i + 1

block_raises(b) ==
    \/ b.kind = "malformed"
    \/ \E k \in 1..Len(b.items) : process_item(NoScan, b.items[k]).raised

\* the call: find_all and the initial values of the locals
AnalyzeSchema ==
    /\ pc = "analyze_schema"
    /\ scan' = [NoScan EXCEPT !.i = 1]
    /\ calls' = Append(calls, "analyze_schema")
    /\ pc' = "schema_loop"
    /\ UNCHANGED <<url, page, data, score_breakdown, engine_scores, recommendations,
                   shown, run, first>>

\* one iteration of the for loop over the script blocks
ScanBlock ==
    /\ pc = "schema_loop"
    /\ scan.i <= Len(page.blocks)
    /\ LET b == page.blocks[scan.i]
           after == process_block(scan, b)
       IN  scan' = [after EXCEPT !.i = IF block_raises(b)
                                        THEN after_exception(scan.i, Len(page.blocks))
                                        ELSE scan.i + 1]
    /\ UNCHANGED <<pc, url, page, data, score_breakdown, engine_scores, recommendations,
                   shown, calls, run, first>>

\* the loop is over: the returned record becomes schema_data
SchemaReturn ==
    /\ pc = "schema_loop"
    /\ scan.i > Len(page.blocks)
    /\ data' = [data EXCEPT !.schema =
                   [faq_present |-> scan.faq_present, faq_count |-> scan.faq_count,
                    howto_present |-> scan.howto_present, howto_count |-> scan.howto_count,
                    article_present |-> scan.article_present]]
    /\ pc' = "analyze_questions"
    /\ UNCHANGED <<url, page, scan, score_breakdown, engine_scores, recommendations,
                   shown, calls, run, first>>

NextSchema == AnalyzeSchema \/ ScanBlock \/ SchemaReturn

InitSchema ==
    /\ pc = "analyze_schema"
    /\ url = "valid"
    /\ page \in {[NoPage EXCEPT !.blocks = bs] : bs \in SeqsUpTo(Blocks, MaxBlocks)}
    /\ scan = NoScan
    /\ data = NoData
    /\ score_breakdown = NoBreakdown
    /\ engine_scores = NoEngineScores
    /\ recommendations = <<>>
    /\ shown = <<>>
    /\ calls = <<>>
    /\ run = 1
    /\ first = NoOutputs

SpecSchema == InitSchema /\ [][NextSchema]_vars

----------------------------------------------------------------------------
(* The other extractors. A page gives its headings as texts, its paragraphs *)
(* as word counts, and the outcome of each search the extractors make.      *)

\* heading.get_text().strip()
Strip(t) == IF t = " How do I start? " THEN "How do I start?" ELSE t

\* the lower-cased text starts with one of question_words
StartsWithQuestionWord(t) == t \in {"How do I start?", "What is AEO?", "Howto guide"}

EndsWithQuestionMark(t) == t \in {"How do I start?", "What is AEO?", "Show details?"}

IsQuestionHeading(h) ==
    StartsWithQuestionWord(Strip(h)) \/ EndsWithQuestionMark(Strip(h))

RECURSIVE question_headings_of(_)
question_headings_of(hs) ==
    IF hs = <<>> THEN <<>>
    ELSE IF IsQuestionHeading(Head(hs))
         THEN <<Strip(Head(hs))>> \o question_headings_of(Tail(hs))
         ELSE question_headings_of(Tail(hs))

analyze_questions_unsliced(pg) ==
    LET question_headings == question_headings_of(pg.headings)
    IN  [total_headings |-> Len(pg.headings),
         question_headings |-> Len(question_headings),
         question_heading_examples |-> question_headings]

analyze_questions(pg) ==
    LET question_headings == question_headings_of(pg.headings)
    IN  [total_headings |-> Len(pg.headings),
         question_headings |-> Len(question_headings),
         question_heading_examples |->
             SubSeq(question_headings, 1, Min(5, Len(question_headings)))]

snippet_score_of_no_lower_limit(first_para_words, lists, tables, short_paragraphs) ==
    (IF first_para_words <= 60 THEN 30 ELSE 0)
  + (IF lists > 0 THEN 25 ELSE 0)
  + (IF tables > 0 THEN 20 ELSE 0)
  + (IF short_paragraphs >= 3 THEN 25 ELSE 0)

snippet_score_of(first_para_words, lists, tables, short_paragraphs) ==
    (IF first_para_words >= 40 /\ first_para_words <= 60 THEN 30 ELSE 0)
  + (IF lists > 0 THEN 25 ELSE 0)
  + (IF tables > 0 THEN 20 ELSE 0)
  + (IF short_paragraphs >= 3 THEN 25 ELSE 0)

analyze_snippet_optimization(pg) ==
    LET first_para_words == IF pg.paragraphs # <<>> THEN pg.paragraphs[1] ELSE 0
        short_paragraphs ==
            Cardinality({i \in 1..Len(pg.paragraphs) :
                            40 <= pg.paragraphs[i] /\ pg.paragraphs[i] <= 60})
    IN  [first_para_words |-> first_para_words,
         lists |-> pg.lists,
         tables |-> pg.tables,
         short_paragraphs |-> short_paragraphs,
         snippet_score |->
             Min(snippet_score_of(first_para_words, pg.lists, pg.tables, short_paragraphs),
                 100)]

analyze_structure(pg) ==
    [has_tldr |-> pg.tldr,
     has_toc |-> pg.toc,
     avg_para_length |-> IF pg.paragraphs # <<>>
                         THEN PyRound(10 * SumSeq(pg.paragraphs), Len(pg.paragraphs))
                         ELSE 0,
     word_count |-> pg.word_count,
     flesch_reading_ease |-> IF pg.flesch_raises THEN 0 ELSE pg.flesch]

\* entity_examples, the first 10 of a set in arbitrary order, is read by no
\* later stage; the model keeps it empty
analyze_entities(pg) == [entities_found |-> pg.entities, entity_examples |-> <<>>]

analyze_eeat(pg) ==
    [has_author_meta |-> pg.author_meta,
     has_date |-> pg.date_meta,
     has_author_bio |-> pg.author_bio,
     has_about_link |-> pg.about_link,
     has_contact_link |-> pg.contact_link,
     has_sources |-> pg.sources]

----------------------------------------------------------------------------
(* The Analyze button handler *)

Urls == {"", "example.com/article", "https://example.com/article"}

\* requests accepts the URL: it has a scheme and a host
WellFormed(u) == u = "https://example.com/article"

\* what requests.get and raise_for_status do with the URL
fetch_outcomes(u) ==
    IF WellFormed(u) THEN {"ok", "timeout", "connection_error", "http_error"}
    ELSE {"invalid_url"}

after_fetch_swallowed(outcome) == "parse"

after_fetch_retried(outcome) == IF outcome = "ok" THEN "parse" ELSE "fetch_page"

\* fetch_page returns the text, or its exception reaches the handler's except
after_fetch(outcome) == IF outcome = "ok" THEN "parse" ELSE "except"

PageBlocks ==
    {<<>>,
     <<[kind |-> "malformed", items |-> <<>>],
       [kind |-> "object", items |-> <<Item("FAQPage", MaxItems)>>]>>,
     <<[kind |-> "list", items |-> <<Item("FAQPage", 1), Item("NotAnObject", 0)>>],
       [kind |-> "object", items |-> <<Item("HowTo", MaxItems)>>],
       [kind |-> "object", items |-> <<Item("Article", 0)>>]>>}

PageHeadings ==
    {<<>>,
     <<"Introduction", "What is AEO?", "What is AEO?", "What is AEO?", "What is AEO?",
       "What is AEO?", " How do I start? ">>,
     <<"Show details?", "Howto guide", "What is AEO?">>}

PageParagraphs == {<<>>, <<45, 50, 50>>, <<120, 130>>}

AppPages ==
    {[blocks |-> bs, headings |-> hs, paragraphs |-> ps, lists |-> n, tables |-> n,
      tldr |-> b, toc |-> b, word_count |-> SumSeq(ps),
      flesch |-> IF b THEN 600 ELSE 599, flesch_raises |-> ~b,
      entities |-> IF b THEN 11 ELSE 0,
      author_meta |-> b, date_meta |-> b, author_bio |-> b,
      about_link |-> b, contact_link |-> b, sources |-> b] :
      bs \in PageBlocks, hs \in PageHeadings, ps \in PageParagraphs,
      n \in {0, 1}, b \in BOOLEAN}

\* the button is pressed with an empty text input
AnalyzeEmpty ==
    /\ pc = "input"
    /\ url = ""
    /\ shown' = Append(shown, "error: Please enter a URL")
    /\ pc' = "done"
    /\ UNCHANGED <<url, page, scan, data, score_breakdown, engine_scores,
                   recommendations, calls, run, first>>

\* the button is pressed with some text in the input
AnalyzeUrl ==
    /\ pc = "input"
    /\ url # ""
    /\ pc' = "fetch_page"
    /\ UNCHANGED <<url, page, scan, data, score_breakdown, engine_scores,
                   recommendations, shown, calls, run, first>>

FetchPage ==
    /\ pc = "fetch_page"
    /\ calls' = Append(calls, "fetch_page")
    /\ \E outcome \in fetch_outcomes(url) :
          /\ pc' = after_fetch(outcome)
          /\ IF outcome = "ok" THEN page' \in AppPages ELSE page' = page
    /\ UNCHANGED <<url, scan, data, score_breakdown, engine_scores, recommendations,
                   shown, run, first>>

\* soup = BeautifulSoup(html, 'html.parser')
Parse ==
    /\ pc = "parse"
    /\ calls' = Append(calls, "BeautifulSoup")
    /\ pc' = "analyze_schema"
    /\ UNCHANGED <<url, page, scan, data, score_breakdown, engine_scores,
                   recommendations, shown, run, first>>

AnalyzeQuestions ==
    /\ pc = "analyze_questions"
    /\ data' = [data EXCEPT !.questions = analyze_questions(page)]
    /\ calls' = Append(calls, "analyze_questions")
    /\ pc' = "analyze_snippet_optimization"
    /\ UNCHANGED <<url, page, scan, score_breakdown, engine_scores, recommendations,
                   shown, run, first>>

AnalyzeSnippet ==
    /\ pc = "analyze_snippet_optimization"
    /\ data' = [data EXCEPT !.snippet = analyze_snippet_optimization(page)]
    /\ calls' = Append(calls, "analyze_snippet_optimization")
    /\ pc' = "analyze_structure"
    /\ UNCHANGED <<url, page, scan, score_breakdown, engine_scores, recommendations,
                   shown, run, first>>

AnalyzeStructure ==
    /\ pc = "analyze_structure"
    /\ data' = [data EXCEPT !.structure = analyze_structure(page)]
    /\ calls' = Append(calls, "analyze_structure")
    /\ pc' = "analyze_entities"
    /\ UNCHANGED <<url, page, scan, score_breakdown, engine_scores, recommendations,
                   shown, run, first>>

AnalyzeEntities ==
    /\ pc = "analyze_entities"
    /\ data' = [data EXCEPT !.entities = analyze_entities(page)]
    /\ calls' = Append(calls, "analyze_entities")
    /\ pc' = "analyze_eeat"
    /\ UNCHANGED <<url, page, scan, score_breakdown, engine_scores, recommendations,
                   shown, run, first>>

\* the last extractor; the six records make up result
AnalyzeEeat ==
    /\ pc = "analyze_eeat"
    /\ data' = [data EXCEPT !.eeat = analyze_eeat(page)]
    /\ calls' = Append(calls, "analyze_eeat")
    /\ pc' = "score"
    /\ UNCHANGED <<url, page, scan, score_breakdown, engine_scores, recommendations,
                   shown, run, first>>

\* st.success and the sections the dashboard renders from the results
Display ==
    /\ pc = "display"
    /\ shown' = shown \o <<"success: Analysis complete", "overall score", "quick checks",
                           "engine scores", "score breakdown", "recommendations",
                           "detailed metrics">>
    /\ pc' = "done"
    /\ UNCHANGED <<url, page, scan, data, score_breakdown, engine_scores,
                   recommendations, calls, run, first>>

\* except Exception as e: st.error, st.info
ExceptHandler ==
    /\ pc = "except"
    /\ shown' = shown \o <<"error: Error analyzing URL", "info: Make sure the URL is accessible">>
    /\ pc' = "done"
    /\ UNCHANGED <<url, page, scan, data, score_breakdown, engine_scores,
                   recommendations, calls, run, first>>

Init ==
    /\ pc = "input"
    /\ url \in Urls
    /\ page = NoPage
    /\ scan = NoScan
    /\ data = NoData
    /\ score_breakdown = NoBreakdown
    /\ engine_scores = NoEngineScores
    /\ recommendations = <<>>
    /\ shown = <<>>
    /\ calls = <<>>
    /\ run = 1
    /\ first = NoOutputs

Next ==
    \/ AnalyzeEmpty \/ AnalyzeUrl \/ FetchPage \/ Parse
    \/ AnalyzeSchema \/ ScanBlock \/ SchemaReturn
    \/ AnalyzeQuestions \/ AnalyzeSnippet \/ AnalyzeStructure
    \/ AnalyzeEntities \/ AnalyzeEeat
    \/ ScoreBreakdown \/ EngineScores \/ Recommend
    \/ Display \/ ExceptHandler

Spec == Init /\ [][Next]_vars

----------------------------------------------------------------------------
(* The extractors and the pipeline on a parsed page: lines 472-490 *)

InitExtract(Pages) ==
    /\ pc = "analyze_schema"
    /\ url = "https://example.com/article"
    /\ page \in Pages
    /\ scan = NoScan
    /\ data = NoData
    /\ score_breakdown = NoBreakdown
    /\ engine_scores = NoEngineScores
    /\ recommendations = <<>>
    /\ shown = <<>>
    /\ calls = <<>>
    /\ run = 1
    /\ first = NoOutputs

NextExtract ==
    \/ AnalyzeSchema \/ ScanBlock \/ SchemaReturn
    \/ AnalyzeQuestions \/ AnalyzeSnippet \/ AnalyzeStructure
    \/ AnalyzeEntities \/ AnalyzeEeat
    \/ ScoreBreakdown \/ EngineScores \/ Recommend

\* a question heading with "how", one without, and a heading with "how" that
\* is no question
EnumeratedHeadingTexts == {"How do I start?", "What is AEO?", "Knowhow basics"}

\* pages with every sequence of up to MaxHeadings headings, with and without
\* a HowTo block
HeadingPages ==
    {[NoPage EXCEPT !.headings = hs, !.blocks = bs] :
        hs \in SeqsUpTo(EnumeratedHeadingTexts, MaxHeadings),
        bs \in {<<>>, <<[kind |-> "object", items |-> <<Item("HowTo", MaxItems)>>]>>}}

InitQuestions == InitExtract(HeadingPages)

SpecQuestions == InitQuestions /\ [][NextExtract]_vars

\* pages around the page that scores 100: each signal of the rubric present
\* or missing
SchemaBlockChoices ==
    LET faq == [kind |-> "object", items |-> <<Item("FAQPage", MaxItems)>>]
        howto == [kind |-> "object", items |-> <<Item("HowTo", MaxItems)>>]
        article == [kind |-> "object", items |-> <<Item("Article", 0)>>]
    IN  {<<faq, howto, article>>, <<howto, article>>, <<faq, article>>, <<faq, howto>>}

HeadingChoices ==
    {<<"What is AEO?", "What is AEO?", "What is AEO?", "What is AEO?", "How do I start?">>,
     <<"How do I start?", "What is AEO?">>}

ParagraphChoices ==
    {<<45, 50, 50>>, <<39, 50, 50, 50>>, <<61, 50, 50, 50>>, <<45, 50>>,
     <<45, 50, 50, 400>>}

NearPerfectPages ==
    {[blocks |-> bs, headings |-> hs, paragraphs |-> ps, lists |-> l, tables |-> t,
      tldr |-> td, toc |-> tc, word_count |-> SumSeq(ps),
      flesch |-> f, flesch_raises |-> FALSE, entities |-> e,
      author_meta |-> a, date_meta |-> db, author_bio |-> db,
      about_link |-> FALSE, contact_link |-> FALSE, sources |-> so] :
      bs \in SchemaBlockChoices, hs \in HeadingChoices, ps \in ParagraphChoices,
      l \in {0, 1}, t \in {0, 1}, td \in BOOLEAN, tc \in BOOLEAN,
      f \in FleschValues, e \in {10, 11},
      a \in BOOLEAN, db \in BOOLEAN, so \in BOOLEAN}

InitPerfect == InitExtract(NearPerfectPages)

SpecPerfect == InitPerfect /\ [][NextExtract]_vars

----------------------------------------------------------------------------
(* Properties *)

Called(f) == \E i \in 1..Len(calls) : calls[i] = f

BreakdownDone == Called("calculate_score_breakdown")

EnginesDone == Called("calculate_engine_scores")

RecsDone == Called("generate_prioritized_recommendations")

\* the maxima the rubric declares, in tenths
DeclaredMax == [schema |-> 250, questions |-> 200, snippet |-> 200,
                structure |-> 150, eeat |-> 100, entities |-> 100]

ComponentNames == DOMAIN DeclaredMax

\* the sum of the six component scores of the stored breakdown, in tenths
ComponentSum ==
    LET bd == score_breakdown.breakdown
    IN  bd.schema.score + bd.questions.score + bd.snippet.score
        + bd.structure.score + bd.eeat.score + bd.entities.score

\* C1: every one of the six components of the breakdown has 0 <= score <= max,
\* with max 25, 20, 20, 15, 10, 10 for schema, questions, snippet, structure,
\* eeat, entities.
C1_ComponentsBounded ==
    BreakdownDone =>
        /\ DOMAIN score_breakdown.breakdown = ComponentNames
        /\ \A c \in ComponentNames :
              /\ score_breakdown.breakdown[c].max = DeclaredMax[c]
              /\ 0 <= score_breakdown.breakdown[c].score
              /\ score_breakdown.breakdown[c].score <= score_breakdown.breakdown[c].max

\* the cap of the questions component is active and every component is at its max
C1_Witness ==
    /\ BreakdownDone
    /\ data.questions.question_headings > 5
    /\ \A c \in ComponentNames :
          score_breakdown.breakdown[c].score = DeclaredMax[c]

\* C2 as stated, reading "nearest integer" as the usual rounding that takes a
\* sum ending in .5 up: total = min(floor(sum + 0.5), 100).
C2_TotalRoundedHalfUp ==
    BreakdownDone =>
        score_breakdown.total = Min((ComponentSum + 5) \div 10, 100)

\* C2 amended: the total is an integer in [0,100]; it is 100 when the sum
\* rounds to 100 or more, and otherwise it is the integer nearest to the sum
\* of the six component scores, a sum ending in .5 going to the even
\* neighbour (2.5 gives 2, 7.5 gives 8).
C2_TotalRoundedHalfEven ==
    BreakdownDone =>
        LET t == score_breakdown.total
            gap == Abs(10 * t - ComponentSum)
        IN  /\ t \in 0..100
            /\ \/ t = 100 /\ ComponentSum >= 995
               \/ gap < 5
               \/ gap = 5 /\ t % 2 = 0

\* a sum ending in .5 whose lower neighbour is even: the total is rounded down
C2_Witness ==
    /\ BreakdownDone
    /\ ComponentSum % 10 = 5
    /\ (ComponentSum \div 10) % 2 = 0
    /\ score_breakdown.total = ComponentSum \div 10

\* weighted sums over the stored breakdown with the weights of engine e
EngineNum(e) ==
    LET bd == score_breakdown.breakdown
        w == engines[e]
    IN  bd.schema.score * w.schema + bd.questions.score * w.questions
        + bd.snippet.score * w.snippet + bd.structure.score * w.structure
        + bd.eeat.score * w.eeat + bd.entities.score * w.entities

EngineDen(e) ==
    LET bd == score_breakdown.breakdown
        w == engines[e]
    IN  bd.schema.max * w.schema + bd.questions.max * w.questions
        + bd.snippet.max * w.snippet + bd.structure.max * w.structure
        + bd.eeat.max * w.eeat + bd.entities.max * w.entities

AllAtMax == \A c \in ComponentNames :
    score_breakdown.breakdown[c].score = score_breakdown.breakdown[c].max

\* C3: for each of the four engines the score is 100 * sum(score * weight) /
\* sum(max * weight) rounded to one decimal, lies in [0,100], and is exactly
\* 100 when every component score equals its max.
C3_EngineScoresNormalized ==
    EnginesDone =>
        /\ DOMAIN engine_scores = {"ChatGPT", "Claude", "Gemini", "Perplexity"}
        /\ \A e \in DOMAIN engine_scores :
              /\ engine_scores[e] \in 0..1000
              /\ 2 * Abs(engine_scores[e] * EngineDen(e) - 1000 * EngineNum(e))
                    <= EngineDen(e)
              /\ AllAtMax => engine_scores[e] = 1000

\* every component is at its max and every engine scores 100
C3_Witness ==
    /\ EnginesDone
    /\ AllAtMax
    /\ \A e \in DOMAIN engine_scores : engine_scores[e] = 1000

\* the rank the specification gives each priority
Rank(r) == CASE r.priority = "HIGH" -> 0
             [] r.priority = "MEDIUM" -> 1
             [] r.priority = "LOW" -> 2

\* the position of a recommendation's rule in the code
RuleIndex(r) == CHOOSE i \in 1..Len(rules(data)) : rules(data)[i].rec = r

\* C4: the recommendation list is sorted non-decreasingly by priority rank
\* HIGH(0) < MEDIUM(1) < LOW(2), and entries of equal priority appear in the
\* order in which their rules are written in the code.
C4_SortedByPriority ==
    RecsDone =>
        \A i, j \in 1..Len(recommendations) :
            i < j =>
                /\ Rank(recommendations[i]) <= Rank(recommendations[j])
                /\ Rank(recommendations[i]) = Rank(recommendations[j])
                      => RuleIndex(recommendations[i]) < RuleIndex(recommendations[j])

\* every rule fired: three HIGH, four MEDIUM and two LOW entries
C4_Witness ==
    /\ RecsDone
    /\ Len(recommendations) = 9
    /\ recommendations[3].priority = "HIGH"
    /\ recommendations[4].priority = "MEDIUM"
    /\ recommendations[8].priority = "LOW"

Count(r) == Cardinality({i \in 1..Len(recommendations) : recommendations[i] = r})

HighCount == Cardinality({i \in 1..Len(recommendations) :
                             recommendations[i].priority = "HIGH"})

C6_HighRules ==
    RecsDone =>
        /\ Count(recFaq) = B2I(~data.schema.faq_present)
        /\ Count(recQuestions) = B2I(data.questions.question_headings < 3)
        /\ Count(recFirstPara) = B2I(data.snippet.first_para_words < 40
                                     \/ data.snippet.first_para_words > 60)
        /\ HighCount = Count(recFaq) + Count(recQuestions) + Count(recFirstPara)
        /\ data.questions.total_headings = 0 =>
              /\ score_breakdown.breakdown.questions.score = 0
              /\ Count(recQuestions) = 1

\* a page with zero headings, FAQ schema and a 60-word first paragraph: the
\* question-headings recommendation is the only HIGH one
C6_Witness ==
    /\ RecsDone
    /\ data.questions.total_headings = 0
    /\ data.schema.faq_present
    /\ data.snippet.first_para_words = 60
    /\ HighCount = 1
    /\ Count(recQuestions) = 1

\* a LOW recommendation other than the two LOW rules of the code (paragraph
\* length, entities)
OtherLow(r) == r.priority = "LOW" /\ r \notin {recParagraphs, recEntities}

\* C7: when has_sources is false the list contains a LOW recommendation for
\* the missing sources, and none when has_sources is true.
C7_SourcesRecommended ==
    RecsDone =>
        (~data.eeat.has_sources <=>
            \E i \in 1..Len(recommendations) : OtherLow(recommendations[i]))

\* C8: when has_toc is false the list contains a LOW 'no table of contents'
\* recommendation.
C8_TocRecommended ==
    (RecsDone /\ ~data.structure.has_toc) =>
        \E i \in 1..Len(recommendations) : OtherLow(recommendations[i])

\* item k of block b is reached: the block parses and no earlier item of it
\* raised
Raises(it) == it.type = "NotAnObject" \/ (it.type \in {"FAQPage", "HowTo"} /\ it.n < 0)

Reached(b, k) ==
    /\ b.kind # "malformed"
    /\ k \in 1..Len(b.items)
    /\ \A j \in 1..(k - 1) : ~Raises(b.items[j])

\* the positions <<block, item>> of the reached items of type t, and those
\* of them that have a list to count
Matches(t) ==
    {p \in (1..Len(page.blocks)) \X (1..MaxListLen + 1) :
        /\ Reached(page.blocks[p[1]], p[2])
        /\ page.blocks[p[1]].items[p[2]].type = t}

Counted(t) == {p \in Matches(t) : page.blocks[p[1]].items[p[2]].n >= 0}

Before(p, q) == p[1] < q[1] \/ (p[1] = q[1] /\ p[2] < q[2])

\* the size of the list of the last counted item of type t, 0 without one
LastCount(t) ==
    IF Counted(t) = {} THEN 0
    ELSE LET last == CHOOSE p \in Counted(t) : \A q \in Counted(t) : q = p \/ Before(q, p)
         IN  page.blocks[last[1]].items[last[2]].n

SchemaScanned == pc = "analyze_questions" /\ Called("analyze_schema")

\* C9: a block that fails to parse is skipped and every other block is still
\* processed: after the scan faq_present (howto_present) tells whether some
\* processed object is a FAQPage (HowTo), and faq_count (howto_count) is the
\* size of the list of the last such object, not a sum; in particular a
\* malformed block next to a valid FAQPage block gives faq_present = true.
C9_MalformedSkipped ==
    SchemaScanned =>
        /\ scan.i = Len(page.blocks) + 1
        /\ data.schema.faq_present <=> Matches("FAQPage") # {}
        /\ data.schema.howto_present <=> Matches("HowTo") # {}
        /\ data.schema.article_present <=> Matches("Article") # {}
        /\ data.schema.faq_count = LastCount("FAQPage")
        /\ data.schema.howto_count = LastCount("HowTo")
        /\ \A i, j \in 1..Len(page.blocks) :
              ( /\ page.blocks[i].kind = "malformed"
                /\ page.blocks[j].kind = "object"
                /\ page.blocks[j].items[1].type = "FAQPage"
                /\ page.blocks[j].items[1].n >= 0 )
              => data.schema.faq_present

\* a malformed block followed by a FAQPage block with MaxItems entries
C9_Witness ==
    /\ SchemaScanned
    /\ Len(page.blocks) = 2
    /\ page.blocks[1].kind = "malformed"
    /\ page.blocks[2] = [kind |-> "object", items |-> <<Item("FAQPage", MaxItems)>>]
    /\ data.schema.faq_present
    /\ data.schema.faq_count = MaxItems

\* the extractors, the score calculators and the recommendation generator
Downstream ==
    {"analyze_schema", "analyze_questions", "analyze_snippet_optimization",
     "analyze_structure", "analyze_entities", "analyze_eeat",
     "calculate_score_breakdown", "calculate_engine_scores",
     "generate_prioritized_recommendations"}

ErrorShown == \E i \in 1..Len(shown) :
    shown[i] \in {"error: Please enter a URL", "error: Error analyzing URL"}

\* C10: if the URL is missing or malformed, none of the extractors, score
\* calculators or the recommendation generator is ever executed for the
\* request, and the finished request has shown an error.
C10_BadUrlNeverExtracted ==
    ~WellFormed(url) =>
        /\ \A f \in Downstream : ~Called(f)
        /\ pc \notin {"parse"} \cup Downstream \cup {"schema_loop", "score", "engines",
                                                     "recommend", "display"}
        /\ pc = "done" => ErrorShown

\* a malformed URL went to fetch_page, which raised: the error is shown and
\* nothing else was called
C10_Witness ==
    /\ url = "example.com/article"
    /\ pc = "done"
    /\ calls = <<"fetch_page">>
    /\ ErrorShown

\* the functions of a request in the order fetch, parse, extract, score,
\* recommend
StageOrder ==
    <<"fetch_page", "BeautifulSoup", "analyze_schema", "analyze_questions",
      "analyze_snippet_optimization", "analyze_structure", "analyze_entities",
      "analyze_eeat", "calculate_score_breakdown", "calculate_engine_scores",
      "generate_prioritized_recommendations">>

\* the sections of a successful response
ResultSections ==
    {"success: Analysis complete", "overall score", "quick checks", "engine scores",
     "score breakdown", "recommendations", "detailed metrics"}

ResultShown == \E i \in 1..Len(shown) : shown[i] \in ResultSections

\* fetch_page was called and raised
FetchFailed ==
    /\ Called("fetch_page")
    /\ ~Called("BeautifulSoup")
    /\ pc \in {"except", "done"}

\* C11: the stages run in the order fetch, parse, extract, score, recommend,
\* respond; a failed fetch ends the request: fetch is attempted at most once,
\* an error message is shown, and no score, engine score, breakdown or
\* recommendation is presented.
C11_StagesInOrderFetchTerminal ==
    /\ Len(calls) <= Len(StageOrder)
    /\ calls = SubSeq(StageOrder, 1, Len(calls))
    /\ Cardinality({i \in 1..Len(calls) : calls[i] = "fetch_page"}) <= 1
    /\ ResultShown => (calls = StageOrder /\ pc = "done" /\ ~ErrorShown)
    /\ FetchFailed =>
          /\ calls = <<"fetch_page">>
          /\ ~ResultShown
          /\ score_breakdown = NoBreakdown
          /\ pc = "done" => ErrorShown

\* a well-formed URL whose fetch failed: one attempt, the error and nothing else
C11_Witness ==
    /\ WellFormed(url)
    /\ pc = "done"
    /\ calls = <<"fetch_page">>
    /\ shown = <<"error: Error analyzing URL", "info: Make sure the URL is accessible">>

\* the positions of the question-style headings of the page, and those among
\* the first 5 of them in document order
QuestionPositions ==
    {i \in 1..Len(page.headings) : IsQuestionHeading(page.headings[i])}

CapturedPositions ==
    {i \in QuestionPositions : Cardinality({j \in QuestionPositions : j < i}) < 5}

\* C12: the MEDIUM 'Add HowTo schema' recommendation is emitted if and only if
\* HowTo schema is absent and one of the first 5 question-style headings in
\* document order contains "how"; a heading beyond the first 5 never triggers
\* it.
C12_HowToRule ==
    RecsDone =>
        /\ Count(recHowTo) <= 1
        /\ recHowTo.priority = "MEDIUM"
        /\ Count(recHowTo) = 1 <=>
              /\ ~data.schema.howto_present
              /\ \E i \in CapturedPositions : ContainsHow(page.headings[i])

\* five question headings without "how", then one with it as the sixth, and
\* no HowTo schema: the recommendation is not emitted
C12_Witness ==
    /\ RecsDone
    /\ Len(page.headings) = 6
    /\ \A i \in 1..5 : page.headings[i] = "What is AEO?"
    /\ page.headings[6] = "How do I start?"
    /\ ~data.schema.howto_present
    /\ data.questions.question_headings = 6
    /\ Count(recHowTo) = 0

\* C13: for a bundle produced by the extractors, a total score of 100 leaves
\* no HIGH and no MEDIUM recommendation.
C13_PerfectScoreOnlyLow ==
    (RecsDone /\ score_breakdown.total = 100) =>
        \A i \in 1..Len(recommendations) : recommendations[i].priority = "LOW"

\* a page that scores 100 and still gets a recommendation, the LOW one for
\* long paragraphs
C13_Witness ==
    /\ RecsDone
    /\ score_breakdown.total = 100
    /\ data.snippet.snippet_score = 100
    /\ recommendations = <<recParagraphs>>

====
